---- MODULE Spec2Model ----
(***************************************************************************)
(* Verification model of the voice-to-text push-to-talk pipeline.          *)
(*                                                                         *)
(*   SpecRB  : RingBuffer<T> (src/audio/buffer.rs) driven by arbitrary     *)
(*             sequences of push_slice / drain / clear.                    *)
(*   Spec    : PipelineOrchestrator (src/pipeline/runner.rs) with the      *)
(*             hotkey source and the capture producer.                     *)
(*   SpecCtx : ContextManager (src/llm/context.rs) under a clock.          *)
(*   SpecApp : run_pipeline (src/main.rs) behind its command and result    *)
(*             channels, with the audio-resample thread and the            *)
(*             FallbackCorrector (src/llm/fallback.rs) main gives it.      *)
(***************************************************************************)
EXTENDS Integers, Sequences, FiniteSets, TLC

\* ------------------------------------------------------------------------
\* State
\* ------------------------------------------------------------------------
\* SpecRB: a RingBuffer (rb), the capacity it was constructed with, the
\* samples pushed since construction or the last drain / clear, the last
\* operation and the Vec the last drain returned
VARIABLES rb, rb_cap0, rb_pushed, rb_op, rb_out

\* Spec: the orchestrator's AppState (st), the shared ring buffer, its
\* ContextManager, the hotkey channel, the position of the orchestrator task
\* (pc) with the locals that live across its awaits (loc), and the record of
\* the event being handled (cyc)
VARIABLES st, audio_buf, context, hotkey_rx, pc, loc, cyc

\* SpecHold: the push-to-talk key as the hotkey source sees it (key):
\* whether it is held, and how many samples the capture producer has pushed
\* since the source emitted the PushToTalkPressed of the current hold
\* (counted up to the capacity).  The record is kept only in SpecHold.
VARIABLE key

\* SpecCtx: a ContextManager (mgr) and the monotonic clock its Instants are
\* read from (now), the sentences pushed since construction, the last reset
\* or the last silence reset (mgr_log), and the last call made on it (mgr_op)
VARIABLES mgr, now, mgr_log, mgr_op

rbVars == <<rb, rb_cap0, rb_pushed, rb_op, rb_out>>
orcVars == <<st, audio_buf, context, hotkey_rx, pc, loc, cyc, key>>
\* SpecApp: the shared (Vec<f32>, is_recording) buffer of main.rs, the
\* command and result channels, the position and locals of run_pipeline
\* with the results it still has to send (rp), its ContextManager, the
\* position of the audio-resample thread, the call of
\* FallbackCorrector::correct made in the cycle being processed (fb), and
\* the record of a Cancel sent while the pipeline was busy
VARIABLES app_buf, command_rx, result_tx, rp, ctx_mgr, resample, fb, cancel

\* SpecAq: the arguments of a call of a function that keeps no state
\* (fn_in) and what the call returned (fn_out: None until it has returned)
VARIABLES fn_in, fn_out

\* SpecUi: the fields of ThaiSttApp that its state machine uses (ui), the
\* position of the UI thread in update() (ui_pc), and the contents of the
\* three channels the widget holds an end of
VARIABLES ui, ui_pc, ui_hotkey_rx, ui_command_tx, ui_result_rx

\* SpecInject: the system clipboard (its plain-text content, None when it
\* is empty or holds no text) and the call of TextInjector::inject in
\* progress (inj): its position, its argument, the content it saved, what
\* the clipboard held when it was called, what was pasted into the target,
\* whether restore_clipboard was called and what it returned (discarded by
\* the caller), and what the call returned
VARIABLES clipboard, inj

injVars == <<clipboard, inj>>
ctxVars == <<mgr, now, mgr_log, mgr_op>>
uiVars == <<ui, ui_pc, ui_hotkey_rx, ui_command_tx, ui_result_rx>>
fnVars == <<fn_in, fn_out>>
appVars == <<app_buf, command_rx, result_tx, rp, ctx_mgr, resample, fb, cancel>>
vars == <<rbVars, orcVars, ctxVars, appVars, fnVars, uiVars, injVars>>

\* ------------------------------------------------------------------------
\* Bounds of the model
\* ------------------------------------------------------------------------
\* largest RingBuffer capacity explored by SpecRB
MaxCap == 3
\* longest clip handed to AudioQuality::validate
MaxClip == 4
\* longest clip handed to VadDetector::trim_silence
MaxVadClip == 6
\* longest slice handed to one push_slice call
MaxSlice == 2
\* most samples pushed between two resets (drain / clear) in SpecRB
MaxPushed == 7

\* sample values: T::default() (0.0) and one non-default amplitude
SampleValues == {0, 1}

Min(a, b) == IF a < b THEN a ELSE b

\* the last k elements of s (all of s when k >= Len(s))
LastN(s, k) == SubSeq(s, Len(s) - Min(k, Len(s)) + 1, Len(s))

\* all sequences over S of length lo..hi
SeqsOf(S, lo, hi) == UNION {[1..n -> S] : n \in lo..hi}

\* ------------------------------------------------------------------------
\* RingBuffer<T>  (src/audio/buffer.rs)
\* buf is indexed 0..capacity-1 as the Vec is.
\* ------------------------------------------------------------------------
RingBuffer_new(capacity) ==
    [buf |-> [i \in 0..(capacity - 1) |-> 0],
     capacity |-> capacity,
     write_pos |-> 0,
     len |-> 0]

\* push_item with the len guard dropped: len grows on every push
push_item_unguarded_len(b, item) ==
    [b EXCEPT !.buf[b.write_pos] = item,
              !.write_pos = (b.write_pos + 1) % b.capacity,
              !.len = b.len + 1]

\* push_item advancing write_pos without wrapping around
push_item_no_wrap(b, item) ==
    [b EXCEPT !.buf[b.write_pos] = item,
              !.write_pos = b.write_pos + 1,
              !.len = IF b.len < b.capacity THEN b.len + 1 ELSE b.len]

\* body of the for loop of push_slice
push_item(b, item) ==
    [b EXCEPT !.buf[b.write_pos] = item,
              !.write_pos = (b.write_pos + 1) % b.capacity,
              !.len = IF b.len < b.capacity THEN b.len + 1 ELSE b.len]

RECURSIVE push_slice(_, _)
push_slice(b, data) ==
    IF data = <<>> THEN b
    ELSE push_slice(push_item(b, Head(data)), Tail(data))

\* clear resetting only len
clear_len_only(b) == [b EXCEPT !.len = 0]

clear(b) == [b EXCEPT !.write_pos = 0, !.len = 0]

\* drain reading from index 0 also when the buffer has wrapped
drain_read_pos_zero(b) == 0

\* read position of drain: 0 until the buffer is full, then write_pos
drain_read_pos(b) == IF b.len < b.capacity THEN 0 ELSE b.write_pos

\* the Vec returned by drain
drain_result(b) ==
    IF b.len = 0 THEN <<>>
    ELSE [i \in 1..b.len |-> b.buf[(drain_read_pos(b) + (i - 1)) % b.capacity]]

\* the buffer left behind by drain
drain_buffer(b) == IF b.len = 0 THEN b ELSE clear(b)

RbInit ==
    /\ \E c \in 1..MaxCap : rb = RingBuffer_new(c) /\ rb_cap0 = c
    /\ rb_pushed = <<>>
    /\ rb_op = "new"
    /\ rb_out = <<>>

\* push_slice(data): rb_pushed restarts after a drain or clear
RbPush ==
    \E data \in SeqsOf(SampleValues, 0, MaxSlice) :
        LET since == IF rb_op \in {"drain", "clear"} THEN <<>> ELSE rb_pushed IN
        /\ Len(since) + Len(data) <= MaxPushed
        /\ rb' = push_slice(rb, data)
        /\ rb_pushed' = since \o data
        /\ rb_op' = "push"
        /\ rb_out' = <<>>
        /\ UNCHANGED <<rb_cap0, orcVars, ctxVars, appVars, fnVars, uiVars, injVars>>

\* drain(): rb_pushed keeps what was pushed before this drain for comparison
RbDrain ==
    /\ rb_out' = drain_result(rb)
    /\ rb' = drain_buffer(rb)
    /\ rb_pushed' = IF rb_op \in {"drain", "clear"} THEN <<>> ELSE rb_pushed
    /\ rb_op' = "drain"
    /\ UNCHANGED <<rb_cap0, orcVars, ctxVars, appVars, fnVars, uiVars, injVars>>

RbClear ==
    /\ rb' = clear(rb)
    /\ rb_pushed' = <<>>
    /\ rb_op' = "clear"
    /\ rb_out' = <<>>
    /\ UNCHANGED <<rb_cap0, orcVars, ctxVars, appVars, fnVars, uiVars, injVars>>

RbNext == RbPush \/ RbDrain \/ RbClear


\* ------------------------------------------------------------------------
\* PipelineOrchestrator  (src/pipeline/runner.rs, src/pipeline/state.rs)
\*
\* The orchestrator is one async task.  Its code between two await points
\* runs without interleaving of its own; the only other party touching what
\* it touches is the capture producer, which pushes into audio_buf under
\* the buffer mutex.  AppState is written by the orchestrator alone, and a
\* producer push commutes with every AppState write, so each stretch of
\* code between two awaits is one action here.
\* ------------------------------------------------------------------------

\* capacity of audio_buf in the model (16_000 * 60 in the program); the
\* orchestrator looks only at the length of what it drains
BufCap == 1
\* capacity of audio_buf where a recording has to fit into the buffer
HoldCap == 3
\* capacity of the hotkey mpsc channel in the model
ChanCap == 1

\* Option<T>
None == <<>>
Some(x) == <<x>>

\* transcripts / corrections the engines may return
Texts == {"a", "b"}
\* SttError::to_string() of the errors an engine may return
SttErrors == {"Transcription error: inference failed"}
\* JoinError::to_string() of a failed worker-pool task
JoinErrors == {"task panicked"}
\* LlmError variants
LlmErrors == {"Request", "Timeout", "Parse", "EmptyResponse"}
\* InjectError variants
InjectErrors == {"ClipboardAccess", "ClipboardSet", "KeySimulation"}

HotkeyEvents == {"PushToTalkPressed", "PushToTalkReleased", "ToggleVisibility"}
OperatingModes == {"Fast", "Standard", "Context"}
PipelineStates == {"Idle", "Recording", "Transcribing", "Correcting", "Result", "Error"}

\* impl Display for PipelineError (the dash of the EmptyAudio text in ASCII)
PipelineError_to_string(e) ==
    CASE e.kind = "EmptyAudio" -> "No audio captured - hold the hotkey longer"
      [] e.kind = "Stt" -> "Transcription failed: " \o e.msg
      [] e.kind = "Inject" -> "Text injection failed: " \o e.msg
      [] e.kind = "Internal" -> "Internal error: " \o e.msg

\* AppState::new; recording_secs is kept in samples (seconds * 16_000)
AppState_new(mode) ==
    [pipeline |-> "Idle",
     last_text |-> None,
     raw_text |-> None,
     operating_mode |-> mode,
     error_message |-> None,
     recording_secs |-> 0]

\* max_sentences of ContextManager::new
DefaultMaxSentences == 3

ContextManager_new == [sentences |-> <<>>, max_sentences |-> DefaultMaxSentences]

\* push_sentence without its trim loop
trim_window_none(s, max) == s

\* the trim loop of push_sentence
RECURSIVE trim_window(_, _)
trim_window(s, max) == IF Len(s) > max THEN trim_window(Tail(s), max) ELSE s

\* ContextManager::push_sentence; expired = (last_activity.elapsed() > silence_reset)
push_sentence(cm, sentence, expired) ==
    [cm EXCEPT !.sentences =
        trim_window(Append(IF expired THEN <<>> ELSE cm.sentences, sentence),
                    cm.max_sentences)]

set_pipeline(s, state) == [s EXCEPT !.pipeline = state]

set_error(s, message) == [s EXCEPT !.pipeline = "Error", !.error_message = Some(message)]

\* the stt await reached with the guard of the drained buffer still alive
guards_at_await_drain_guard_kept(point) ==
    IF point = "stt" THEN {"audio_buf"} ELSE {}

\* the MutexGuards of the orchestrator task that are alive at an await point
\* (recv in run; stt, llm, inject in handle_released): every guard is bound
\* inside a block, a match arm, an if-let body or a helper that ends before
\* the next await
guards_at_await(point) == {}

\* locals of handle_released that live across its await points
NoLocals == [audio |-> <<>>, raw_text |-> "", final_text |-> "",
             guards |-> guards_at_await("recv")]

\* record of the event being handled (or handled last): whether its handler
\* found the pipeline in Recording (for a press: the pipeline state it found
\* and whether the buffer held samples), what was drained,
\* which collaborators were invoked and what they returned, whether
\* Correcting was entered, and which of last_text, error_message and the
\* context window the handler has changed.  While the pipeline is Recording
\* the record also keeps whether the press found samples in the buffer
\* (pre_audio) and how many samples were pushed since the press was handled
\* (fresh, counted up to the capacity); left is the length of the buffer
\* after the drain of a release.
NoCycle ==
    [ev |-> "none", done |-> TRUE, drained |-> -1,
     stt_calls |-> 0, llm_calls |-> 0, inject_calls |-> 0,
     stt |-> "none", stt_out |-> "", llm |-> "none", llm_out |-> "",
     inject |-> "none", inject_text |-> "", correcting |-> FALSE,
     pre_recording |-> FALSE, pre_pipeline |-> "Idle", pre_audio |-> FALSE,
     fresh |-> 0, left |-> 0,
     changed |-> {}]

CycleStart(ev) ==
    [NoCycle EXCEPT !.ev = ev,
                    !.pre_recording = (st.pipeline = "Recording"),
                    !.pre_pipeline = IF ev = "PushToTalkPressed" THEN st.pipeline ELSE "Idle",
                    !.pre_audio = IF ev = "PushToTalkPressed" THEN audio_buf.len > 0
                                  ELSE st.pipeline = "Recording" /\ cyc.pre_audio,
                    !.fresh = IF ev # "PushToTalkPressed" /\ st.pipeline = "Recording"
                              THEN cyc.fresh ELSE 0]

\* c with the fields a step from (s, cm) to (s2, cm2) changed added to c.changed
Changes(c, s, cm, s2, cm2) ==
    [c EXCEPT !.changed = @ \cup {f \in {"last_text", "error_message"} : s2[f] # s[f]}
                            \cup {f \in {"sentences"} : cm2[f] # cm[f]}]

\* the key record where it is not kept, and with the key up
KeyOff == [phase |-> "off", since |-> 0]
KeyUp == [phase |-> "up", since |-> 0]

\* the key record after the hotkey source has emitted e: a press starts a
\* hold (a repeated press while held does not), a release ends it
key_event(k, e) ==
    IF k.phase = "off" \/ e = "ToggleVisibility" THEN k
    ELSE IF e = "PushToTalkPressed"
    THEN IF k.phase = "held" THEN k ELSE [phase |-> "held", since |-> 0]
    ELSE IF k.phase = "held" THEN [k EXCEPT !.phase = "released"] ELSE KeyUp

\* the key record after n samples were pushed into a buffer of capacity cap
key_push(k, n, cap) ==
    IF k.phase = "held" THEN [k EXCEPT !.since = Min(@ + n, cap)] ELSE k

\* the state PipelineOrchestrator::new and its caller set up, with a ring
\* buffer of the given capacity
OrcInitWith(capacity, k) ==
    /\ \E mode \in OperatingModes : st = AppState_new(mode)
    /\ audio_buf = RingBuffer_new(capacity)
    /\ context = ContextManager_new
    /\ hotkey_rx = <<>>
    /\ pc = "recv"
    /\ loc = NoLocals
    /\ cyc = NoCycle
    /\ key = k

OrcInit == OrcInitWith(BufCap, KeyOff)

\* the hotkey source sends an event (blocking_send waits while the channel is full)
HotkeySend ==
    \E e \in HotkeyEvents :
        /\ Len(hotkey_rx) < ChanCap
        /\ hotkey_rx' = Append(hotkey_rx, e)
        /\ key' = key_event(key, e)
        /\ UNCHANGED <<st, audio_buf, context, pc, loc, cyc, rbVars, ctxVars, appVars, fnVars, uiVars, injVars>>

\* amplitude of the captured samples (the orchestrator never reads a sample)
CaptureValues == {1}

\* the capture producer takes the buffer mutex and pushes a chunk of samples
CapturePush ==
    \E data \in SeqsOf(CaptureValues, 1, MaxSlice) :
        /\ "audio_buf" \notin loc.guards
        /\ audio_buf' = push_slice(audio_buf, data)
        /\ cyc' = IF st.pipeline = "Recording"
                  THEN [cyc EXCEPT !.fresh = Min(@ + Len(data), audio_buf.capacity)]
                  ELSE cyc
        /\ key' = key_push(key, Len(data), audio_buf.capacity)
        /\ UNCHANGED <<st, context, hotkey_rx, pc, loc, rbVars, ctxVars, appVars, fnVars, uiVars, injVars>>

\* ---- PipelineOrchestrator::run: take the next event from hotkey_rx ----
run_recv(event) ==
    /\ pc = "recv"
    /\ hotkey_rx # <<>>
    /\ Head(hotkey_rx) = event
    /\ hotkey_rx' = Tail(hotkey_rx)

\* handle_pressed leaving the stale error_message in place
pressed_state_keeps_error(s) ==
    [s EXCEPT !.pipeline = "Recording", !.recording_secs = 0]

\* the AppState writes of handle_pressed
pressed_state(s) ==
    [s EXCEPT !.pipeline = "Recording", !.recording_secs = 0, !.error_message = None]

\* handle_pressed leaving the leftover audio in the buffer
pressed_buffer_kept(b) == b

\* the ring buffer after handle_pressed
pressed_buffer(b) == clear(b)

\* handle_pressed: clear the audio buffer and enter Recording.  (The Err arm
\* of audio_buf.lock() needs a holder of the mutex to have panicked; no
\* holder can: push_slice, drain and clear do not panic for capacity > 0.)
handle_pressed ==
    /\ run_recv("PushToTalkPressed")
    /\ audio_buf' = pressed_buffer(audio_buf)
    /\ st' = pressed_state(st)
    /\ cyc' = Changes(CycleStart("PushToTalkPressed"), st, context, st', context)
    /\ UNCHANGED <<key, context, pc, loc, rbVars, ctxVars, appVars, fnVars, uiVars, injVars>>

\* the ToggleVisibility arm sending the pipeline back to Idle
toggle_state_resets(s) == [s EXCEPT !.pipeline = "Idle"]

\* the AppState after the ToggleVisibility arm of run (an empty arm)
toggle_state(s) == s

\* the ToggleVisibility arm of run: ignored
handle_toggle ==
    /\ run_recv("ToggleVisibility")
    /\ st' = toggle_state(st)
    /\ cyc' = CycleStart("ToggleVisibility")
    /\ UNCHANGED <<key, audio_buf, context, pc, loc, rbVars, ctxVars, appVars, fnVars, uiVars, injVars>>

\* the empty check left out
audio_is_empty_never(audio) == FALSE

\* handle_released, step 1: is the drained audio rejected as empty
audio_is_empty(audio) == Len(audio) = 0

\* handle_released up to the await of the STT task: drain, empty check,
\* recording_secs, Transcribing, spawn_blocking(stt.transcribe)
released_drain ==
    /\ run_recv("PushToTalkReleased")
    /\ LET audio == drain_result(audio_buf)
           c0 == [CycleStart("PushToTalkReleased") EXCEPT
                      !.done = FALSE,
                      !.drained = Len(audio),
                      !.left = drain_buffer(audio_buf).len]
       IN /\ audio_buf' = drain_buffer(audio_buf)
          /\ IF audio_is_empty(audio)
             THEN /\ st' = set_error(st, PipelineError_to_string([kind |-> "EmptyAudio"]))
                  /\ pc' = "recv"
                  /\ loc' = NoLocals
                  /\ cyc' = Changes([c0 EXCEPT !.done = TRUE], st, context, st', context)
             ELSE /\ st' = set_pipeline([st EXCEPT !.recording_secs = Len(audio)],
                                        "Transcribing")
                  /\ pc' = "stt"
                  /\ loc' = [NoLocals EXCEPT !.audio = audio,
                                              !.guards = guards_at_await("stt")]
                  /\ cyc' = Changes([c0 EXCEPT !.stt_calls = 1], st, context, st', context)
    /\ UNCHANGED <<key, context, rbVars, ctxVars, appVars, fnVars, uiVars, injVars>>

\* results the awaited STT task can have: Ok(Ok(text)), Ok(Err(e)), Err(join)
SttResults ==
    [tag : {"ok"}, val : Texts] \cup [tag : {"err"}, val : SttErrors]
        \cup [tag : {"join"}, val : JoinErrors]

\* the error arms recording the message without entering Error
stt_failed_state_no_transition(s, r) ==
    [s EXCEPT !.error_message = Some(PipelineError_to_string([kind |-> "Stt", msg |-> r.val]))]

\* the AppState after a failed STT call (the two error arms of the match)
stt_failed_state(s, r) ==
    IF r.tag = "err"
    THEN set_error(s, PipelineError_to_string([kind |-> "Stt", msg |-> r.val]))
    ELSE set_error(s, PipelineError_to_string([kind |-> "Internal", msg |-> r.val]))

\* the mode check left out: the corrector is called in every mode
skips_llm_never(mode) == FALSE

\* the corrector skipped in every mode
skips_llm_always(mode) == TRUE

\* step 3: does the operating mode skip the LLM
skips_llm(mode) == mode = "Fast"

\* the raw text not stored in the shared state
store_raw_text_skipped(s, raw_text) == s

\* "Store raw text so the UI can show it while the LLM runs"
store_raw_text(s, raw_text) == [s EXCEPT !.raw_text = Some(raw_text)]

\* handle_released from the STT result to the next await: the match on the
\* result, raw_text, the mode check, and either the Correcting branch up to
\* llm.correct(..).await or (Fast) spawn_blocking(inject_text)
released_stt ==
    /\ pc = "stt"
    /\ \E r \in SttResults :
        LET c1 == [cyc EXCEPT !.stt = r.tag, !.stt_out = r.val] IN
        IF r.tag # "ok"
        THEN /\ st' = stt_failed_state(st, r)
             /\ pc' = "recv"
             /\ loc' = NoLocals
             /\ cyc' = Changes([c1 EXCEPT !.done = TRUE], st, context, st', context)
        ELSE LET s1 == store_raw_text(st, r.val) IN
             IF skips_llm(s1.operating_mode)
             THEN /\ st' = s1
                  /\ pc' = "inject"
                  /\ loc' = [NoLocals EXCEPT !.raw_text = r.val, !.final_text = r.val,
                                              !.guards = guards_at_await("inject")]
                  /\ cyc' = Changes([c1 EXCEPT !.inject_calls = 1, !.inject_text = r.val],
                                     st, context, st', context)
             ELSE /\ st' = set_pipeline(s1, "Correcting")
                  /\ pc' = "llm"
                  /\ loc' = [NoLocals EXCEPT !.raw_text = r.val,
                                              !.guards = guards_at_await("llm")]
                  /\ cyc' = Changes([c1 EXCEPT !.llm_calls = 1,
                                               !.correcting = (st'.pipeline = "Correcting")],
                                     st, context, st', context)
    /\ UNCHANGED <<key, audio_buf, context, hotkey_rx, rbVars, ctxVars, appVars, fnVars, uiVars, injVars>>

\* results of llm.correct
LlmResults == [tag : {"ok"}, val : Texts] \cup [tag : {"err"}, val : LlmErrors]

\* the Err arm turned fatal, as the STT error arms are
llm_state_err_sets_error(s, r) ==
    IF r.tag = "err"
    THEN set_error(s, "LLM correction failed: " \o r.val)
    ELSE s

\* the AppState after the match on the corrector's result: no arm writes it
llm_state(s, r) == s

\* the value of final_text after the match on the corrector's result
llm_final_text(r, raw_text) == IF r.tag = "ok" THEN r.val ELSE raw_text

\* the Ok arm not pushing the corrected sentence
llm_context_no_push(cm, r, expired) == cm

\* both arms pushing the final text
llm_context_push_always(cm, r, expired) ==
    push_sentence(cm, r.val, expired)

\* the context window after the match on the corrector's result
llm_context(cm, r, expired) ==
    IF r.tag = "ok" THEN push_sentence(cm, r.val, expired) ELSE cm

\* handle_released from the corrector's result to the await of the injection task
released_llm ==
    /\ pc = "llm"
    /\ \E r \in LlmResults, expired \in BOOLEAN :
        LET final == llm_final_text(r, loc.raw_text) IN
        /\ context' = llm_context(context, r, expired)
        /\ st' = llm_state(st, r)
        /\ loc' = [loc EXCEPT !.final_text = final,
                              !.guards = guards_at_await("inject")]
        /\ cyc' = Changes([cyc EXCEPT !.llm = r.tag,
                                      !.llm_out = IF r.tag = "ok" THEN r.val ELSE "",
                                      !.inject_calls = 1, !.inject_text = final],
                            st, context, st', context')
    /\ pc' = "inject"
    /\ UNCHANGED <<key, audio_buf, hotkey_rx, rbVars, ctxVars, appVars, fnVars, uiVars, injVars>>

\* results the awaited injection task can have
InjectResults == {"ok", "err", "join"}

\* an injection failure surfacing as a pipeline error
finalise_state_inject_fatal(s, final_text, r) ==
    IF r = "ok"
    THEN [s EXCEPT !.pipeline = "Result", !.last_text = Some(final_text), !.raw_text = None]
    ELSE set_error(s, PipelineError_to_string([kind |-> "Inject", msg |-> r]))

\* step 5, finalise state; r is the injection result
finalise_state(s, final_text, r) ==
    [s EXCEPT !.pipeline = "Result", !.last_text = Some(final_text), !.raw_text = None]

\* handle_released from the injection result to its end
released_inject ==
    /\ pc = "inject"
    /\ \E r \in InjectResults :
        /\ st' = finalise_state(st, loc.final_text, r)
        /\ cyc' = Changes([cyc EXCEPT !.inject = r, !.done = TRUE], st, context, st', context)
    /\ pc' = "recv"
    /\ loc' = NoLocals
    /\ UNCHANGED <<key, audio_buf, context, hotkey_rx, rbVars, ctxVars, appVars, fnVars, uiVars, injVars>>

OrcNext ==
    \/ HotkeySend
    \/ CapturePush
    \/ handle_pressed
    \/ handle_toggle
    \/ released_drain
    \/ released_stt
    \/ released_llm
    \/ released_inject

\* the orchestrator variables while only the ring buffer is exercised
OrcIdle ==
    /\ st = AppState_new("Standard")
    /\ audio_buf = RingBuffer_new(BufCap)
    /\ context = ContextManager_new
    /\ hotkey_rx = <<>>
    /\ pc = "recv"
    /\ loc = NoLocals
    /\ cyc = NoCycle
    /\ key = KeyOff

\* ------------------------------------------------------------------------
\* ContextManager  (src/llm/context.rs)
\* ------------------------------------------------------------------------
\* largest max_sentences given to with_capacity
MaxWindow == 3
\* largest silence_reset_secs given to with_capacity
MaxSilence == 2
\* last tick of the clock
MaxClock == 4
\* most sentences pushed without a reset in between
MaxSentencesPushed == 5

\* ContextManager::with_capacity, constructed at time t
ContextManager_with_capacity(max_sentences, silence_reset_secs, t) ==
    [sentences |-> <<>>,
     max_sentences |-> max_sentences,
     last_activity |-> t,
     silence_reset |-> silence_reset_secs]

\* the silence check never firing
silence_elapsed_never(c, t) == FALSE

\* self.last_activity.elapsed() > self.silence_reset, read at time t
silence_elapsed(c, t) == t - c.last_activity > c.silence_reset

\* push_sentence not touching last_activity
ContextManager_push_sentence_timer_kept(c, sentence, t) ==
    push_sentence(c, sentence, silence_elapsed(c, t))

\* ContextManager::push_sentence called at time t
ContextManager_push_sentence(c, sentence, t) ==
    [push_sentence(c, sentence, silence_elapsed(c, t)) EXCEPT !.last_activity = t]

\* ContextManager::reset
ContextManager_reset(c) == [c EXCEPT !.sentences = <<>>]

NoCmOp == [op |-> "new", sentence |-> "", gap |-> 0, at |-> 0, before |-> <<>>]
CtxInit ==
    /\ \E n \in 0..MaxWindow, secs \in 0..MaxSilence :
          mgr = ContextManager_with_capacity(n, secs, 0)
    /\ now = 0
    /\ mgr_log = <<>>
    /\ mgr_op = NoCmOp

\* time passes
ClockTick ==
    /\ now < MaxClock
    /\ now' = now + 1
    /\ UNCHANGED <<mgr, mgr_log, mgr_op, rbVars, orcVars, appVars, fnVars, uiVars, injVars>>

\* push_sentence(sentence) at the current time; mgr_op.at is the time of the
\* previous push (of the construction before the first one), gap the time
\* elapsed since; mgr_log restarts with the sentence after a gap above the
\* threshold
CmPush ==
    \E sentence \in Texts :
        LET gap == now - mgr_op.at
            since == IF gap > mgr.silence_reset THEN <<>> ELSE mgr_log
        IN /\ Len(since) < MaxSentencesPushed
           /\ mgr' = ContextManager_push_sentence(mgr, sentence, now)
           /\ mgr_log' = Append(since, sentence)
           /\ mgr_op' = [op |-> "push", sentence |-> sentence, gap |-> gap,
                        at |-> now, before |-> mgr.sentences]
           /\ UNCHANGED <<now, rbVars, orcVars, appVars, fnVars, uiVars, injVars>>

CmReset ==
    /\ mgr' = ContextManager_reset(mgr)
    /\ mgr_log' = <<>>
    /\ mgr_op' = [NoCmOp EXCEPT !.op = "reset", !.at = mgr_op.at, !.before = mgr.sentences]
    /\ UNCHANGED <<now, rbVars, orcVars, appVars, fnVars, uiVars, injVars>>

CtxNext == ClockTick \/ CmPush \/ CmReset

\* the stand-alone ContextManager while another part is exercised
CtxIdle ==
    /\ mgr = ContextManager_with_capacity(DefaultMaxSentences, 0, 0)
    /\ now = 0
    /\ mgr_log = <<>>
    /\ mgr_op = NoCmOp

\* ------------------------------------------------------------------------
\* run_pipeline  (src/main.rs), the audio-resample thread, the receiving
\* end of the result channel and FallbackCorrector (src/llm/fallback.rs)
\*
\* run_pipeline is one async task; the code between two awaits is one
\* action.  Each result_tx.send(..).await is an await of its own: the
\* results a stretch of code sends are put in rp.outbox and handed to the
\* channel one by one, as room allows, before the task goes on.
\* ------------------------------------------------------------------------
\* capacity of the command channel in the model (16 in main)
CmdCap == 1
\* capacity of the result channel in the model (32 in main)
ResCap == 1
\* most samples the Vec accumulates in the model
AppMaxSamples == 3
\* shortest audio passed on to STT in the model (8_000 samples in the program)
MinSamples == 2

\* AudioConfig::max_recording_secs in samples, in the model (60 s, 960_000
\* samples at 16 kHz, in the program)
MaxRecordingSamples == 2

PipelineCommands == {"StartRecording", "StopRecording", "Cancel"}

\* LlmProvider: one backend and Disabled
LlmProviders == {"Ollama", "Disabled"}

\* AppConfig: the settings the claims about run_pipeline are about
\* (llm.enabled, llm.provider, operating_mode)
AppConfigs == [llm_enabled : BOOLEAN, llm_provider : LlmProviders,
               operating_mode : OperatingModes]

\* PipelineResult values; text is the payload of the variants that have one
Result(kind, text) == [kind |-> kind, text |-> text]

\* the Err arm handing the error on
FallbackCorrector_correct_propagates(inner, raw) == inner

\* FallbackCorrector::correct; inner is what self.inner.correct returned
FallbackCorrector_correct(inner, raw) ==
    IF inner.tag = "ok"
    THEN [tag |-> "ok", val |-> inner.val]
    ELSE [tag |-> "ok", val |-> raw]

NoFbCall == [called |-> FALSE, raw |-> "", context |-> None,
             inner |-> [tag |-> "ok", val |-> ""], out |-> [tag |-> "ok", val |-> ""]]

\* locals of run_pipeline that live across its awaits
RpIdle(config) ==
    [pc |-> "recv", outbox |-> <<>>, audio |-> <<>>, raw_text |-> "",
     final_text |-> "", config |-> config]

\* record of a Cancel that was sent while the pipeline was busy and is
\* still in the command channel: the phase of the cycle when it was sent
\* and what the pipeline has done for that cycle since (results handed to
\* the result channel, text injected)
NoCancel == [at |-> "none", effects |-> {}]

\* the phase of the cycle run_pipeline is in
phase ==
    IF rp.pc # "recv" THEN rp.pc
    ELSE IF app_buf.is_recording THEN "recording"
    ELSE "none"

\* c with the side effects e of the cycle added while a Cancel is pending
Effects(c, e) ==
    IF c.at # "none" THEN [c EXCEPT !.effects = @ \cup e] ELSE c

AppInit ==
    /\ app_buf = [samples |-> <<>>, is_recording |-> FALSE]
    /\ command_rx = <<>>
    /\ result_tx = <<>>
    /\ \E config \in AppConfigs : rp = RpIdle(config)
    /\ ctx_mgr = ContextManager_new
    /\ resample = "recv"
    /\ fb = NoFbCall
    /\ cancel = NoCancel

\* a command is put into the command channel (try_send: not when it is full)
CommandSend ==
    \E cmd \in PipelineCommands :
        /\ Len(command_rx) < CmdCap
        /\ command_rx' = Append(command_rx, cmd)
        /\ cancel' = IF cmd = "Cancel" /\ phase # "none" /\ cancel.at = "none"
                     THEN [NoCancel EXCEPT !.at = phase]
                     ELSE cancel
        /\ UNCHANGED <<app_buf, result_tx, rp, ctx_mgr, resample, fb,
                       rbVars, orcVars, ctxVars, fnVars, uiVars, injVars>>

\* audio-resample thread: a chunk arrived, is_recording is read under a
\* brief lock; the chunk is dropped when it is false
ResampleCheck ==
    /\ resample = "recv"
    /\ resample' = IF app_buf.is_recording THEN "push" ELSE "recv"
    /\ UNCHANGED <<app_buf, command_rx, result_tx, rp, ctx_mgr, fb, cancel,
                   rbVars, orcVars, ctxVars, fnVars, uiVars, injVars>>

\* audio-resample thread: the resampled chunk is appended under a second lock
ResamplePush ==
    /\ resample = "push"
    /\ \E chunk \in SeqsOf(CaptureValues, 1, MaxSlice) :
        /\ Len(app_buf.samples) + Len(chunk) <= AppMaxSamples
        /\ app_buf' = [app_buf EXCEPT !.samples = @ \o chunk]
    /\ resample' = "recv"
    /\ UNCHANGED <<command_rx, result_tx, rp, ctx_mgr, fb, cancel,
                   rbVars, orcVars, ctxVars, fnVars, uiVars, injVars>>

\* the receiving end of the result channel: result_rx.try_recv() in the
\* loop of ThaiSttApp::poll_results takes the oldest result
PollResult ==
    /\ result_tx # <<>>
    /\ result_tx' = Tail(result_tx)
    /\ UNCHANGED <<app_buf, command_rx, rp, ctx_mgr, resample, fb, cancel,
                   rbVars, orcVars, ctxVars, fnVars, uiVars, injVars>>

\* run_pipeline suspended in result_tx.send(..).await: the next pending
\* result goes into the channel when there is room
rp_send ==
    /\ rp.outbox # <<>>
    /\ Len(result_tx) < ResCap
    /\ result_tx' = Append(result_tx, Head(rp.outbox))
    /\ rp' = [rp EXCEPT !.outbox = Tail(@)]
    /\ cancel' = Effects(cancel, {Head(rp.outbox).kind} \cap
                                 {"TranscriptionComplete", "CorrectionComplete",
                                  "InjectionComplete"})
    /\ UNCHANGED <<app_buf, command_rx, ctx_mgr, resample, fb,
                   rbVars, orcVars, ctxVars, fnVars, uiVars, injVars>>

\* command_rx.recv() returning cmd
rp_recv(cmd) ==
    /\ rp.pc = "recv"
    /\ rp.outbox = <<>>
    /\ command_rx # <<>>
    /\ Head(command_rx) = cmd
    /\ command_rx' = Tail(command_rx)

\* the StartRecording arm
rp_start ==
    /\ rp_recv("StartRecording")
    /\ app_buf' = [samples |-> <<>>, is_recording |-> TRUE]
    /\ rp' = [rp EXCEPT !.outbox = <<Result("RecordingStarted", "")>>]
    /\ UNCHANGED <<result_tx, ctx_mgr, resample, fb, cancel, rbVars, orcVars, ctxVars, fnVars, uiVars, injVars>>

\* the 0.5 s guard left out
audio_too_short_never(audio) == FALSE

\* the guard of the StopRecording arm on the length of the audio
audio_too_short(audio) == Len(audio) < MinSamples

\* the StopRecording arm up to the await of the STT task
rp_stop ==
    /\ rp_recv("StopRecording")
    /\ app_buf' = [samples |-> <<>>, is_recording |-> FALSE]
    /\ LET audio == app_buf.samples IN
       IF audio_too_short(audio)
       THEN rp' = [rp EXCEPT !.outbox = <<Result("RecordingStopped", ""),
                                          Result("Error", "recording too short")>>]
       ELSE rp' = [rp EXCEPT !.outbox = <<Result("RecordingStopped", "")>>,
                             !.audio = audio,
                             !.pc = "stt"]
    /\ UNCHANGED <<result_tx, ctx_mgr, resample, fb, cancel, rbVars, orcVars, ctxVars, fnVars, uiVars, injVars>>

\* does the StopRecording arm call the corrector
llm_enabled(config) == config.llm_enabled /\ config.operating_mode # "Fast"

\* from the STT result to the next await other than a send
rp_stt ==
    /\ rp.pc = "stt"
    /\ rp.outbox = <<>>
    /\ \E r \in SttResults :
        IF r.tag = "err"
        THEN rp' = [rp EXCEPT !.outbox = <<Result("Error", "STT error: " \o r.val)>>,
                              !.audio = <<>>, !.pc = "recv"]
        ELSE IF r.tag = "join"
        THEN rp' = [rp EXCEPT !.outbox = <<Result("Error", "internal error: " \o r.val)>>,
                              !.audio = <<>>, !.pc = "recv"]
        ELSE IF llm_enabled(rp.config)
        THEN rp' = [rp EXCEPT !.outbox = <<Result("TranscriptionComplete", r.val)>>,
                              !.audio = <<>>, !.raw_text = r.val, !.pc = "llm"]
        ELSE rp' = [rp EXCEPT !.outbox = <<Result("TranscriptionComplete", r.val),
                                           Result("CorrectionComplete", r.val)>>,
                              !.audio = <<>>, !.raw_text = r.val,
                              !.final_text = r.val, !.pc = "inject"]
    /\ UNCHANGED <<app_buf, command_rx, result_tx, ctx_mgr, resample, fb, cancel,
                   rbVars, orcVars, ctxVars, fnVars, uiVars, injVars>>

\* ContextManager::build_context: None for an empty window
build_context(cm) == IF cm.sentences = <<>> THEN None ELSE Some(cm.sentences)

\* from the result of llm.correct (the FallbackCorrector main constructs,
\* around a corrector returning inner) to the await of the injection task
rp_llm ==
    /\ rp.pc = "llm"
    /\ rp.outbox = <<>>
    /\ \E inner \in LlmResults, expired \in BOOLEAN :
        LET out == FallbackCorrector_correct(inner, rp.raw_text)
            final == IF out.tag = "ok" THEN out.val ELSE rp.raw_text
        IN /\ fb' = [called |-> TRUE, raw |-> rp.raw_text,
                     context |-> build_context(ctx_mgr),
                     inner |-> inner, out |-> out]
           /\ ctx_mgr' = IF out.tag = "ok"
                         THEN push_sentence(ctx_mgr, out.val, expired)
                         ELSE ctx_mgr
           /\ rp' = [rp EXCEPT !.outbox = <<Result("CorrectionComplete", final)>>,
                               !.final_text = final, !.pc = "inject"]
    /\ UNCHANGED <<app_buf, command_rx, result_tx, resample, cancel,
                   rbVars, orcVars, ctxVars, fnVars, uiVars, injVars>>

\* from the result of the injection task to the end of the arm
rp_inject ==
    /\ rp.pc = "inject"
    /\ rp.outbox = <<>>
    /\ rp' = [rp EXCEPT !.outbox = <<Result("InjectionComplete", "")>>,
                        !.raw_text = "", !.final_text = "", !.pc = "recv"]
    /\ cancel' = Effects(cancel, {"inject"})
    /\ fb' = NoFbCall
    /\ UNCHANGED <<app_buf, command_rx, result_tx, ctx_mgr, resample,
                   rbVars, orcVars, ctxVars, fnVars, uiVars, injVars>>

\* the Cancel arm leaving the buffer as it is
cancel_buffer_kept(b) == b

\* the shared buffer after the Cancel arm
cancel_buffer(b) == [samples |-> <<>>, is_recording |-> FALSE]

\* the Cancel arm
rp_cancel ==
    /\ rp_recv("Cancel")
    /\ app_buf' = cancel_buffer(app_buf)
    /\ cancel' = NoCancel
    /\ UNCHANGED <<result_tx, rp, ctx_mgr, resample, fb, rbVars, orcVars, ctxVars, fnVars, uiVars, injVars>>

AppNext ==
    \/ CommandSend
    \/ ResampleCheck
    \/ ResamplePush
    \/ PollResult
    \/ rp_send
    \/ rp_start
    \/ rp_stop
    \/ rp_stt
    \/ rp_llm
    \/ rp_inject
    \/ rp_cancel

\* run_pipeline and its surroundings while another part is exercised
AppIdle ==
    /\ app_buf = [samples |-> <<>>, is_recording |-> FALSE]
    /\ command_rx = <<>>
    /\ result_tx = <<>>
    /\ rp = RpIdle([llm_enabled |-> TRUE, llm_provider |-> "Ollama",
                    operating_mode |-> "Standard"])
    /\ ctx_mgr = ContextManager_new
    /\ resample = "recv"
    /\ fb = NoFbCall
    /\ cancel = NoCancel

\* the stand-alone ring buffer while the orchestrator is exercised
RbIdle ==
    /\ rb = RingBuffer_new(1)
    /\ rb_cap0 = 1
    /\ rb_pushed = <<>>
    /\ rb_op = "new"
    /\ rb_out = <<>>

\* ------------------------------------------------------------------------
\* AudioQuality  (src/audio/quality.rs)
\*
\* Durations are counted in samples (secs * 16 000) and amplitudes in
\* hundredths of full scale, so the default validator reads
\* 8 000 / 960 000 samples, 1 and 99 hundredths, 10 per cent.
\* ------------------------------------------------------------------------
AudioQuality_default ==
    [min_recording |-> 8000, max_recording |-> 960000,
     silence_threshold |-> 1, clipping_threshold |-> 99, clipping_max_pct |-> 10]

\* AudioQuality::new(min_secs, max_secs)
AudioQuality_new(min, max) ==
    [AudioQuality_default EXCEPT !.min_recording = min, !.max_recording = max]

abs(x) == IF x < 0 THEN -x ELSE x

\* audio.iter().map(|s| s.abs()).fold(0.0, f32::max)
RECURSIVE max_amplitude(_)
max_amplitude(audio) ==
    IF audio = <<>> THEN 0
    ELSE LET m == max_amplitude(Tail(audio))
             a == abs(Head(audio))
         IN IF a > m THEN a ELSE m

\* audio.iter().filter(|s| s.abs() > clipping_threshold).count()
clipped_count(q, audio) ==
    Cardinality({i \in 1..Len(audio) : abs(audio[i]) > q.clipping_threshold})

\* validate with the silence check ahead of the duration checks
AudioQuality_validate_silence_first(q, audio) ==
    IF max_amplitude(audio) < q.silence_threshold THEN "TooQuiet"
    ELSE IF Len(audio) < q.min_recording THEN "TooShort"
    ELSE IF Len(audio) > q.max_recording THEN "TooLong"
    ELSE IF audio # <<>> /\ clipped_count(q, audio) * 100 > q.clipping_max_pct * Len(audio)
         THEN "Clipping"
    ELSE "Ok"

\* AudioQuality::validate: "Ok" or the variant of the AudioError returned
AudioQuality_validate(q, audio) ==
    IF Len(audio) < q.min_recording THEN "TooShort"
    ELSE IF Len(audio) > q.max_recording THEN "TooLong"
    ELSE IF max_amplitude(audio) < q.silence_threshold THEN "TooQuiet"
    ELSE IF audio # <<>> /\ clipped_count(q, audio) * 100 > q.clipping_max_pct * Len(audio)
         THEN "Clipping"
    ELSE "Ok"

\* amplitudes of the clips validated: silence, speech, and full scale of
\* either sign
Amplitudes == {0, 50, 100, -100}

\* the validators explored: AudioQuality::new with limits around the clip
\* lengths (a minimum above the maximum included), and the public
\* thresholds at their defaults or set so that a clip can be both too quiet
\* and clipping
AudioQualities ==
    {[AudioQuality_new(min, max) EXCEPT !.silence_threshold = sil,
                                        !.clipping_threshold = clip,
                                        !.clipping_max_pct = pct] :
        min \in {0, 2, MaxClip}, max \in {1, MaxClip - 1},
        sil \in {1, 100}, clip \in {99, 40}, pct \in {10, 50}}

NoCall == [fn |-> "none"]

AqInit ==
    /\ \E q \in AudioQualities, audio \in SeqsOf(Amplitudes, 0, MaxClip) :
          fn_in = [fn |-> "validate", q |-> q, audio |-> audio]
    /\ fn_out = None

\* validate(&audio) is called
AqValidate ==
    /\ fn_in.fn = "validate"
    /\ fn_out = None
    /\ fn_out' = Some(AudioQuality_validate(fn_in.q, fn_in.audio))
    /\ UNCHANGED <<fn_in, rbVars, orcVars, ctxVars, appVars, uiVars, injVars>>

AqNext == AqValidate

\* ------------------------------------------------------------------------
\* VadDetector  (src/audio/vad.rs)
\*
\* Amplitudes and the threshold are in hundredths of full scale.  A slice
\* of audio is the pair of its bounds, [start, end) in the indices of the
\* Vec (from 0); SliceOf gives its samples.
\* ------------------------------------------------------------------------
VadDetector_with_frame_size(rms_threshold, frame_size) ==
    [rms_threshold |-> rms_threshold, frame_size |-> frame_size]

\* &audio[s..e]
SliceOf(audio, s, e) == SubSeq(audio, s + 1, e)

\* chunk.iter().map(|s| s * s).sum()
RECURSIVE sum_sq(_)
sum_sq(chunk) ==
    IF chunk = <<>> THEN 0 ELSE Head(chunk) * Head(chunk) + sum_sq(Tail(chunk))

\* is_voice_frame: sqrt(sum / len) > threshold, for a threshold >= 0, is
\* sum > threshold^2 * len
is_voice_frame(v, chunk) ==
    /\ chunk # <<>>
    /\ sum_sq(chunk) > v.rms_threshold * v.rms_threshold * Len(chunk)

\* the frames of audio that hold voice
voice_frames(v, audio) ==
    LET total_frames == (Len(audio) + v.frame_size - 1) \div v.frame_size IN
    {i \in 0..(total_frames - 1) :
        is_voice_frame(v, SliceOf(audio, i * v.frame_size,
                                  Min((i + 1) * v.frame_size, Len(audio))))}

\* the right boundary taken from the first voice frame
end_frame_first(frames) == CHOOSE i \in frames : \A j \in frames : i <= j

\* (0..total_frames).rfind(is voice): the last voice frame
end_frame(frames) == CHOOSE i \in frames : \A j \in frames : j <= i

\* VadDetector::trim_silence: the bounds of the slice returned
VadDetector_trim_silence(v, audio) ==
    IF audio = <<>> THEN [start |-> 0, end |-> 0]
    ELSE LET frames == voice_frames(v, audio) IN
         IF frames = {} THEN [start |-> 0, end |-> 0]
         ELSE LET start_frame == CHOOSE i \in frames : \A j \in frames : i <= j
              IN [start |-> start_frame * v.frame_size,
                  end |-> Min((end_frame(frames) + 1) * v.frame_size, Len(audio))]

\* amplitudes of the clips trimmed: digital silence, room noise, speech
VadAmplitudes == {0, 1, 50}
\* the detectors explored: thresholds 0.01 and 0.10, frames of 1 to 3
\* samples (with_frame_size)
VadDetectors ==
    {VadDetector_with_frame_size(t, f) : t \in {1, 10}, f \in 1..3}

VadInit ==
    /\ \E v \in VadDetectors, audio \in SeqsOf(VadAmplitudes, 0, MaxVadClip) :
          fn_in = [fn |-> "trim_silence", v |-> v, audio |-> audio]
    /\ fn_out = None

\* trim_silence(&audio) is called
VadTrim ==
    /\ fn_in.fn = "trim_silence"
    /\ fn_out = None
    /\ fn_out' = Some(VadDetector_trim_silence(fn_in.v, fn_in.audio))
    /\ UNCHANGED <<fn_in, rbVars, orcVars, ctxVars, appVars, uiVars, injVars>>

VadNext == VadTrim

\* ------------------------------------------------------------------------
\* DomainDetector  (src/llm/domain.rs)
\*
\* detect reads the text only through text.contains(kw): a text is
\* represented by the number of keywords of each domain it contains.
\* ------------------------------------------------------------------------
\* DOMAINS, in the order of the static array; keywords is the length of
\* the keyword list
DOMAINS ==
    <<[name |-> "Medical", keywords |-> 10, threshold |-> 2],
      [name |-> "Legal", keywords |-> 10, threshold |-> 2],
      [name |-> "Technical", keywords |-> 11, threshold |-> 2],
      [name |-> "Casual", keywords |-> 8, threshold |-> 3]>>

\* the filter_map of detect: the (name, count) pairs of the domains that
\* reach their threshold, in the order of domains
RECURSIVE qualifying(_, _)
qualifying(domains, matches) ==
    IF domains = <<>> THEN <<>>
    ELSE LET domain == Head(domains)
             count == matches[domain.name]
             rest == qualifying(Tail(domains), matches)
         IN IF count >= domain.threshold
            THEN <<[name |-> domain.name, count |-> count]>> \o rest
            ELSE rest

\* Iterator::max_by_key: of several maximal elements the last is returned
RECURSIVE max_by_key(_)
max_by_key(pairs) ==
    IF pairs = <<>> THEN None
    ELSE LET rest == max_by_key(Tail(pairs)) IN
         IF rest # None /\ rest[1].count >= Head(pairs).count
         THEN rest
         ELSE Some(Head(pairs))

\* DomainDetector::detect over the given domain definitions
detect(domains, matches) ==
    LET best == max_by_key(qualifying(domains, matches)) IN
    IF best = None THEN None ELSE Some(best[1].name)

\* s in reverse order
RECURSIVE Reverse(_)
Reverse(s) == IF s = <<>> THEN <<>> ELSE Append(Reverse(Tail(s)), Head(s))

\* every text, by the keywords it contains
TextMatches ==
    {m \in [{DOMAINS[i].name : i \in 1..Len(DOMAINS)} -> 0..11] :
        \A i \in 1..Len(DOMAINS) : m[DOMAINS[i].name] <= DOMAINS[i].keywords}

DomainInit ==
    /\ \E m \in TextMatches : fn_in = [fn |-> "detect", matches |-> m]
    /\ fn_out = None

\* detect(text) is called
DomainDetect ==
    /\ fn_in.fn = "detect"
    /\ fn_out = None
    /\ fn_out' = Some(detect(DOMAINS, fn_in.matches))
    /\ UNCHANGED <<fn_in, rbVars, orcVars, ctxVars, appVars, uiVars, injVars>>

DomainNext == DomainDetect

\* ------------------------------------------------------------------------
\* ThaiSttApp  (src/app.rs): the widget's own state machine
\*
\* eframe calls update() once per frame on the UI thread; the other ends
\* of the three channels belong to other threads, so update() is split at
\* every try_recv.  The fields that only drive the drawing (waveform,
\* spinner_phase, recording_start, show_settings) are left out.
\* result_time is kept as the whole seconds elapsed since it was set,
\* counted up to the timeout.
\* ------------------------------------------------------------------------
\* seconds after which check_result_timeout clears the Result state
ResultTimeout == 3

ThaiSttApp_new ==
    [pipeline_state |-> "Idle", raw_text |-> None, corrected_text |-> None,
     error_message |-> None, result_time |-> None]

\* the PipelineResult values the widget may be sent
UiResults ==
    {Result(k, "") : k \in {"RecordingStarted", "RecordingStopped", "InjectionComplete"}}
        \cup {Result(k, "a") : k \in {"TranscriptionComplete", "CorrectionComplete", "Error"}}

reset_to_idle(a) ==
    [a EXCEPT !.pipeline_state = "Idle", !.raw_text = None, !.corrected_text = None,
              !.error_message = None, !.result_time = None]

\* command_tx.try_send(cmd): dropped when the channel is full
try_send(chan, cmd) == IF Len(chan) < CmdCap THEN Append(chan, cmd) ELSE chan

UiInit ==
    /\ ui = ThaiSttApp_new
    /\ ui_pc = "poll_hotkey"
    /\ ui_hotkey_rx = <<>>
    /\ ui_command_tx = <<>>
    /\ ui_result_rx = <<>>

\* main forwards an event of the hotkey listener to the widget
UiHotkeySend ==
    \E e \in HotkeyEvents :
        /\ Len(ui_hotkey_rx) < ChanCap
        /\ ui_hotkey_rx' = Append(ui_hotkey_rx, e)
        /\ UNCHANGED <<ui, ui_pc, ui_command_tx, ui_result_rx,
                       rbVars, orcVars, ctxVars, appVars, fnVars, injVars>>

\* the pipeline sends a result
UiResultSend ==
    \E r \in UiResults :
        /\ Len(ui_result_rx) < ResCap
        /\ ui_result_rx' = Append(ui_result_rx, r)
        /\ UNCHANGED <<ui, ui_pc, ui_hotkey_rx, ui_command_tx,
                       rbVars, orcVars, ctxVars, appVars, fnVars, injVars>>

\* the pipeline takes a command
UiCommandRecv ==
    /\ ui_command_tx # <<>>
    /\ ui_command_tx' = Tail(ui_command_tx)
    /\ UNCHANGED <<ui, ui_pc, ui_hotkey_rx, ui_result_rx,
                   rbVars, orcVars, ctxVars, appVars, fnVars, injVars>>

\* a second passes while a result is displayed
UiTick ==
    /\ ui.result_time # None
    /\ ui.result_time[1] < ResultTimeout
    /\ ui' = [ui EXCEPT !.result_time = Some(@[1] + 1)]
    /\ UNCHANGED <<ui_pc, ui_hotkey_rx, ui_command_tx, ui_result_rx,
                   rbVars, orcVars, ctxVars, appVars, fnVars, injVars>>

\* the Pressed arm acting in every state
pressed_accepted_always(state) == TRUE

\* the guard of the PushToTalkPressed arm of poll_hotkey
pressed_accepted(state) == state = "Idle"

\* poll_hotkey: one turn of the while-let loop
poll_hotkey ==
    /\ ui_pc = "poll_hotkey"
    /\ IF ui_hotkey_rx = <<>>
       THEN /\ ui_pc' = "poll_results"
            /\ UNCHANGED <<ui, ui_hotkey_rx, ui_command_tx>>
       ELSE LET event == Head(ui_hotkey_rx) IN
            /\ ui_hotkey_rx' = Tail(ui_hotkey_rx)
            /\ ui_pc' = ui_pc
            /\ IF event = "PushToTalkPressed" /\ pressed_accepted(ui.pipeline_state)
               THEN /\ ui' = [ui EXCEPT !.pipeline_state = "Recording"]
                    /\ ui_command_tx' = try_send(ui_command_tx, "StartRecording")
               ELSE IF event = "PushToTalkReleased" /\ ui.pipeline_state = "Recording"
               THEN /\ ui' = [ui EXCEPT !.pipeline_state = "Transcribing"]
                    /\ ui_command_tx' = try_send(ui_command_tx, "StopRecording")
               ELSE UNCHANGED <<ui, ui_command_tx>>
    /\ UNCHANGED <<ui_result_rx, rbVars, orcVars, ctxVars, appVars, fnVars, injVars>>

\* the match of poll_results on one result
apply_result(a, r) ==
    IF r.kind = "TranscriptionComplete"
    THEN [a EXCEPT !.raw_text = Some(r.text), !.pipeline_state = "Correcting"]
    ELSE IF r.kind = "CorrectionComplete"
    THEN [a EXCEPT !.corrected_text = Some(r.text), !.pipeline_state = "Result",
                   !.result_time = Some(0)]
    ELSE IF r.kind = "Error"
    THEN [a EXCEPT !.error_message = Some(r.text), !.pipeline_state = "Error"]
    ELSE a

\* poll_results: one turn of the while-let loop
poll_results ==
    /\ ui_pc = "poll_results"
    /\ IF ui_result_rx = <<>>
       THEN /\ ui_pc' = "check_result_timeout"
            /\ UNCHANGED <<ui, ui_result_rx>>
       ELSE /\ ui_result_rx' = Tail(ui_result_rx)
            /\ ui' = apply_result(ui, Head(ui_result_rx))
            /\ ui_pc' = ui_pc
    /\ UNCHANGED <<ui_hotkey_rx, ui_command_tx, rbVars, orcVars, ctxVars, appVars, fnVars, injVars>>

check_result_timeout ==
    /\ ui_pc = "check_result_timeout"
    /\ ui' = IF /\ ui.pipeline_state = "Result"
                /\ ui.result_time # None
                /\ ui.result_time[1] >= ResultTimeout
             THEN reset_to_idle(ui)
             ELSE ui
    /\ ui_pc' = "draw"
    /\ UNCHANGED <<ui_hotkey_rx, ui_command_tx, ui_result_rx,
                   rbVars, orcVars, ctxVars, appVars, fnVars, injVars>>

\* the rest of update(): the panel of the current state is drawn; the
\* close button of the Result and Error panels and the cancel button of the
\* Error panel may have been clicked
draw ==
    /\ ui_pc = "draw"
    /\ \E click \in {"none", "close", "cancel"} :
        /\ click = "close" => ui.pipeline_state \in {"Result", "Error"}
        /\ click = "cancel" => ui.pipeline_state = "Error"
        /\ ui' = IF click = "none" THEN ui ELSE reset_to_idle(ui)
        /\ ui_command_tx' = IF click = "cancel" THEN try_send(ui_command_tx, "Cancel")
                             ELSE ui_command_tx
    /\ ui_pc' = "poll_hotkey"
    /\ UNCHANGED <<ui_hotkey_rx, ui_result_rx, rbVars, orcVars, ctxVars, appVars, fnVars, injVars>>

UiNext ==
    \/ UiHotkeySend
    \/ UiResultSend
    \/ UiCommandRecv
    \/ UiTick
    \/ poll_hotkey
    \/ poll_results
    \/ check_result_timeout
    \/ draw

\* the widget while another part is exercised
UiIdle == UiInit

\* ------------------------------------------------------------------------
\* inject_text / TextInjector::inject  (src/inject/mod.rs) and the
\* clipboard helpers (src/inject/clipboard.rs)
\*
\* Each step of the call is one action; a step that fails makes the `?`
\* return its error at once.
\* ------------------------------------------------------------------------
\* what the clipboard can hold
ClipboardContents == {None} \cup {Some(t) : t \in Texts \cup {"c", "d"}}

\* outcomes of opening the clipboard and writing to it
SetOutcomes == {"ok", "ClipboardAccess", "ClipboardSet"}

\* set_clipboard: the clipboard after the call
set_clipboard(cb, text, r) == IF r = "ok" THEN Some(text) ELSE cb

\* restore_clipboard: the clipboard after the call; None saved leaves it alone
restore_clipboard(cb, saved, r) ==
    IF saved = None THEN cb ELSE set_clipboard(cb, saved[1], r)

NoInject ==
    [pc |-> "idle", text |-> "", saved |-> None, saved_done |-> FALSE,
     before |-> None, pasted |-> None, restore_called |-> FALSE,
     restore_result |-> None, result |-> None]

\* the clipboard is empty when the program starts
InjInit ==
    /\ clipboard = None
    /\ inj = NoInject

\* TextInjector::inject is called with text (one call per cycle)
inject_call ==
    /\ inj.pc \in {"idle", "done"}
    /\ \E text \in Texts :
        inj' = [NoInject EXCEPT !.pc = "save", !.text = text,
                                !.before = clipboard]
    /\ UNCHANGED <<clipboard, rbVars, orcVars, ctxVars, appVars, fnVars, uiVars>>

\* another application replaces the content of the clipboard between calls
ClipboardCopy ==
    /\ inj.pc \in {"idle", "done"}
    /\ \E c \in ClipboardContents : clipboard' = c
    /\ clipboard' # clipboard
    /\ inj' = NoInject
    /\ UNCHANGED <<rbVars, orcVars, ctxVars, appVars, fnVars, uiVars>>

\* step 1: let saved = save_clipboard()?
inject_save ==
    /\ inj.pc = "save"
    /\ \E r \in {"ok", "ClipboardAccess"} :
        inj' = IF r = "ok"
               THEN [inj EXCEPT !.saved = clipboard, !.saved_done = TRUE,
                                !.pc = "set"]
               ELSE [inj EXCEPT !.result = Some(r), !.pc = "done"]
    /\ UNCHANGED <<clipboard, rbVars, orcVars, ctxVars, appVars, fnVars, uiVars>>

\* step 2: set_clipboard(text)?
inject_set ==
    /\ inj.pc = "set"
    /\ \E r \in SetOutcomes :
        /\ clipboard' = set_clipboard(clipboard, inj.text, r)
        /\ inj' = IF r = "ok"
                  THEN [inj EXCEPT !.pc = "paste"]
                  ELSE [inj EXCEPT !.result = Some(r), !.pc = "done"]
    /\ UNCHANGED <<rbVars, orcVars, ctxVars, appVars, fnVars, uiVars>>

\* steps 3 and 4: the delay, then simulate_paste()?; the target pastes
\* what the clipboard holds
inject_paste ==
    /\ inj.pc = "paste"
    /\ \E r \in {"ok", "KeySimulation"} :
        inj' = IF r = "ok"
               THEN [inj EXCEPT !.pasted = clipboard, !.pc = "restore"]
               ELSE [inj EXCEPT !.result = Some(r), !.pc = "done"]
    /\ UNCHANGED <<clipboard, rbVars, orcVars, ctxVars, appVars, fnVars, uiVars>>

\* steps 5 and 6: the delay, then let _ = restore_clipboard(saved); Ok(())
inject_restore ==
    /\ inj.pc = "restore"
    /\ \E r \in SetOutcomes :
        /\ inj.saved = None => r = "ok"
        /\ clipboard' = restore_clipboard(clipboard, inj.saved, r)
        /\ inj' = [inj EXCEPT !.restore_called = TRUE,
                              !.restore_result = Some(r),
                              !.result = Some("ok"), !.pc = "done"]
    /\ UNCHANGED <<rbVars, orcVars, ctxVars, appVars, fnVars, uiVars>>

InjNext ==
    \/ inject_call
    \/ ClipboardCopy
    \/ inject_save
    \/ inject_set
    \/ inject_paste
    \/ inject_restore

\* the clipboard and the injector while another part is exercised
InjIdle ==
    /\ clipboard = None
    /\ inj = NoInject

\* no call of a stateless function outstanding
FnIdle ==
    /\ fn_in = NoCall
    /\ fn_out = None

Init == OrcInit /\ RbIdle /\ CtxIdle /\ AppIdle /\ FnIdle /\ UiIdle /\ InjIdle
Next == OrcNext
Spec == Init /\ [][Next]_vars

\* the orchestrator when every awaited call returns: the task is resumed
\* by the runtime once the STT task, the corrector or the injection task
\* has produced its result (a success, an error, or a failed task)
Fairness ==
    /\ WF_vars(released_stt)
    /\ WF_vars(released_llm)
    /\ WF_vars(released_inject)
SpecLive == Init /\ [][Next]_vars /\ Fairness

\* the orchestrator with a buffer that holds a whole recording, and the
\* record of the key kept
InitHold == OrcInitWith(HoldCap, KeyUp) /\ RbIdle /\ CtxIdle /\ AppIdle /\ FnIdle /\ UiIdle /\ InjIdle
NextHold == OrcNext
SpecHold == InitHold /\ [][NextHold]_vars


InitRB == RbInit /\ OrcIdle /\ CtxIdle /\ AppIdle /\ FnIdle /\ UiIdle /\ InjIdle
NextRB == RbNext
SpecRB == InitRB /\ [][NextRB]_vars

InitCtx == CtxInit /\ OrcIdle /\ RbIdle /\ AppIdle /\ FnIdle /\ UiIdle /\ InjIdle
NextCtx == CtxNext
SpecCtx == InitCtx /\ [][NextCtx]_vars

InitApp == AppInit /\ OrcIdle /\ RbIdle /\ CtxIdle /\ FnIdle /\ UiIdle /\ InjIdle
NextApp == AppNext
SpecApp == InitApp /\ [][NextApp]_vars

InitAq == AqInit /\ OrcIdle /\ RbIdle /\ CtxIdle /\ AppIdle /\ UiIdle /\ InjIdle
NextAq == AqNext
SpecAq == InitAq /\ [][NextAq]_vars

InitVad == VadInit /\ OrcIdle /\ RbIdle /\ CtxIdle /\ AppIdle /\ UiIdle /\ InjIdle
NextVad == VadNext
SpecVad == InitVad /\ [][NextVad]_vars

InitDomain == DomainInit /\ OrcIdle /\ RbIdle /\ CtxIdle /\ AppIdle /\ UiIdle /\ InjIdle
NextDomain == DomainNext
SpecDomain == InitDomain /\ [][NextDomain]_vars

InitUi == UiInit /\ OrcIdle /\ RbIdle /\ CtxIdle /\ AppIdle /\ FnIdle /\ InjIdle
NextUi == UiNext
SpecUi == InitUi /\ [][NextUi]_vars

InitInject == InjInit /\ OrcIdle /\ RbIdle /\ CtxIdle /\ AppIdle /\ FnIdle /\ UiIdle
NextInject == InjNext
SpecInject == InitInject /\ [][NextInject]_vars

\* ------------------------------------------------------------------------
\* Claims
\* ------------------------------------------------------------------------

\* C1: drain returns exactly the last min(n, C) samples pushed since
\* construction or the last drain/clear, in push order, whatever the wrap
\* position (n = number of samples pushed, C = capacity).
C1_DrainReturnsLastSamples ==
    rb_op = "drain" =>
        rb_out = LastN(rb_pushed, Min(Len(rb_pushed), rb.capacity))

\* witness of C1: a drain after more than 2 * capacity samples were pushed
\* into a buffer of capacity > 1 (the write position wrapped twice)
C1_Witness ==
    /\ rb_op = "drain"
    /\ rb.capacity > 1
    /\ Len(rb_pushed) > 2 * rb.capacity
    /\ Len(rb_out) = rb.capacity
    /\ \E i, j \in 1..Len(rb_out) : rb_out[i] # rb_out[j]

\* C2: in every state reached by new(C > 0), push_slice, drain and clear,
\* len <= capacity and capacity is the value given at construction.
C2_LenWithinCapacity ==
    /\ rb.len <= rb.capacity
    /\ rb.capacity = rb_cap0

\* witness of C2: a push that overflowed a full buffer
C2_Witness ==
    /\ rb_op = "push"
    /\ Len(rb_pushed) > rb.capacity
    /\ rb.len = rb.capacity

\* the changes of AppState.pipeline C3 allows
C3_AllowedChanges ==
    {<<"Idle", "Recording">>, <<"Recording", "Transcribing">>,
     <<"Transcribing", "Correcting">>, <<"Transcribing", "Result">>,
     <<"Correcting", "Result">>,
     <<"Result", "Recording">>, <<"Error", "Recording">>}
        \cup {<<p, "Error">> : p \in {"Idle", "Recording", "Transcribing", "Correcting"}}

\* C3: every change of AppState.pipeline follows Idle -> Recording ->
\* Transcribing -> (Correcting ->) Result or goes from one of these stages
\* to Error; Result and Error are left only by the next press; in particular
\* Transcribing is entered from Recording only.
C3_PipelineOrder ==
    [][st'.pipeline # st.pipeline =>
          <<st.pipeline, st'.pipeline>> \in C3_AllowedChanges]_vars

\* C4: a Released handled with an empty drained buffer ends in Error with a
\* non-empty error_message, and the STT engine, the corrector and the
\* injector are not invoked for it.
C4_EmptyAudioIsError ==
    (cyc.ev = "PushToTalkReleased" /\ cyc.drained = 0) =>
        /\ st.pipeline = "Error"
        /\ st.error_message # None
        /\ Len(st.error_message[1]) > 0
        /\ cyc.stt_calls = 0 /\ cyc.llm_calls = 0 /\ cyc.inject_calls = 0
        /\ cyc.done

\* witness of C4: a release following a press with nothing captured between
C4_Witness ==
    /\ cyc.ev = "PushToTalkReleased"
    /\ cyc.drained = 0
    /\ cyc.pre_recording
    /\ st.pipeline = "Error"

\* C5: in Fast mode Correcting is never entered and the corrector is never
\* called, and a release whose audio the STT engine accepts ends in Result
\* with last_text equal to the raw STT output.
C5_FastModeSkipsLlm ==
    st.operating_mode = "Fast" =>
        /\ st.pipeline # "Correcting"
        /\ cyc.llm_calls = 0 /\ cyc.llm = "none" /\ ~cyc.correcting
        /\ (cyc.ev = "PushToTalkReleased" /\ cyc.stt = "ok" /\ cyc.done) =>
              /\ st.pipeline = "Result"
              /\ st.last_text = Some(cyc.stt_out)

\* witness of C5: press, audio, release in Fast mode, STT succeeded
C5_Witness ==
    /\ st.operating_mode = "Fast"
    /\ cyc.ev = "PushToTalkReleased"
    /\ cyc.pre_recording
    /\ cyc.drained > 0
    /\ cyc.stt = "ok"
    /\ cyc.done
    /\ st.pipeline = "Result"

\* C6: in Standard / Context mode, when STT succeeds and the corrector
\* returns Ok(c), the cycle passes through Correcting and ends in Result
\* with last_text = c, and c is the newest sentence of the context window.
C6_CorrectionSucceeds ==
    (/\ st.operating_mode # "Fast"
     /\ cyc.ev = "PushToTalkReleased"
     /\ cyc.stt = "ok"
     /\ cyc.llm = "ok") =>
        /\ cyc.correcting
        /\ context.sentences # <<>>
        /\ context.sentences[Len(context.sentences)] = cyc.llm_out
        /\ cyc.done => (st.pipeline = "Result" /\ st.last_text = Some(cyc.llm_out))

\* witness of C6: a finished cycle whose correction differs from the raw
\* text and from the sentence before it in a full window
C6_Witness ==
    /\ st.operating_mode = "Context"
    /\ cyc.ev = "PushToTalkReleased"
    /\ cyc.stt = "ok" /\ cyc.llm = "ok" /\ cyc.done
    /\ cyc.llm_out # cyc.stt_out
    /\ Len(context.sentences) = DefaultMaxSentences
    /\ context.sentences[DefaultMaxSentences - 1] # cyc.llm_out
    /\ st.pipeline = "Result"

\* C7: in Standard / Context mode, when STT succeeds and the corrector
\* returns an error, the cycle never enters Error, does not write
\* error_message, and ends in Result with last_text = the raw STT output.
C7_CorrectionFailureFallsBack ==
    (/\ st.operating_mode # "Fast"
     /\ cyc.ev = "PushToTalkReleased"
     /\ cyc.stt = "ok"
     /\ cyc.llm = "err") =>
        /\ st.pipeline # "Error"
        /\ "error_message" \notin cyc.changed
        /\ cyc.done => (st.pipeline = "Result" /\ st.last_text = Some(cyc.stt_out))

\* witness of C7: a finished cycle whose corrector failed, which replaced
\* last_text and kept the message an earlier failed cycle had left
C7_Witness ==
    /\ st.operating_mode = "Standard"
    /\ cyc.ev = "PushToTalkReleased"
    /\ cyc.stt = "ok" /\ cyc.llm = "err" /\ cyc.done
    /\ "last_text" \in cyc.changed
    /\ st.error_message # None
    /\ st.pipeline = "Result"

\* C8: when the STT call fails (engine error or failed worker task) the
\* pipeline is in Error with an error_message that carries the cause, STT
\* was called once, neither corrector nor injector is invoked, and last_text
\* and the context window are as they were when the release was handled.
C8_SttFailureIsError ==
    (cyc.ev = "PushToTalkReleased" /\ cyc.stt \in {"err", "join"}) =>
        /\ st.pipeline = "Error"
        /\ st.error_message \in
              {Some(prefix \o cyc.stt_out) :
                  prefix \in {"Transcription failed: ", "Internal error: "}}
        /\ cyc.stt_calls = 1 /\ cyc.llm_calls = 0 /\ cyc.inject_calls = 0
        /\ "last_text" \notin cyc.changed
        /\ "sentences" \notin cyc.changed
        /\ cyc.done

\* witness of C8: a failed worker task after earlier cycles left a text and
\* a sentence behind
C8_Witness ==
    /\ cyc.ev = "PushToTalkReleased"
    /\ cyc.stt = "join"
    /\ st.last_text # None
    /\ context.sentences # <<>>
    /\ st.pipeline = "Error"

\* C9: a failed injection (injector error or failed worker task) leaves the
\* outcome as it is: Result, last_text = the final text (the correction
\* when one was made, else the raw text), error_message not written.
C9_InjectionFailureIgnored ==
    (cyc.ev = "PushToTalkReleased" /\ cyc.inject \in {"err", "join"}) =>
        /\ st.pipeline = "Result"
        /\ st.last_text = Some(cyc.inject_text)
        /\ cyc.inject_text = (IF cyc.llm = "ok" THEN cyc.llm_out ELSE cyc.stt_out)
        /\ "error_message" \notin cyc.changed
        /\ cyc.done

\* witness of C9: the injection task failed after a successful correction
C9_Witness ==
    /\ cyc.ev = "PushToTalkReleased"
    /\ cyc.inject = "join"
    /\ cyc.llm = "ok"
    /\ cyc.llm_out # cyc.stt_out
    /\ st.pipeline = "Result"

\* C10: a step that handles PushToTalkPressed, in whatever state, ends with
\* pipeline = Recording, an empty ring buffer, recording_secs = 0 and
\* error_message = None.
C10_PressStartsNewCycle ==
    [][(/\ pc = "recv"
        /\ hotkey_rx # <<>>
        /\ Head(hotkey_rx) = "PushToTalkPressed"
        /\ hotkey_rx' = Tail(hotkey_rx)) =>
          /\ st'.pipeline = "Recording"
          /\ audio_buf'.len = 0
          /\ drain_result(audio_buf') = <<>>
          /\ st'.recording_secs = 0
          /\ st'.error_message = None]_vars

\* witness of C10: a press handled in Error with samples in the buffer
C10_Witness ==
    /\ cyc.ev = "PushToTalkPressed"
    /\ cyc.pre_pipeline = "Error"
    /\ "error_message" \in cyc.changed
    /\ cyc.pre_audio
    /\ st.pipeline = "Recording"
    /\ st.error_message = None
    /\ audio_buf.len = 0

\* C11: the step that handles a Cancel sent while the cycle was busy
\* (recording, transcribing, correcting or injecting) leaves the buffer
\* empty and not recording, and since the Cancel was sent nothing was
\* published or injected for the cancelled cycle.
C11_CancelWithoutSideEffects ==
    [][(/\ rp.pc = "recv"
        /\ rp.outbox = <<>>
        /\ command_rx # <<>>
        /\ Head(command_rx) = "Cancel"
        /\ command_rx' = Tail(command_rx)
        /\ cancel.at # "none") =>
          /\ app_buf'.samples = <<>>
          /\ ~app_buf'.is_recording
          /\ cancel.effects = {}]_vars

\* C12: once a Cancel was sent while the STT call (the corrector call) of a
\* cycle was in flight, that cycle hands no TranscriptionComplete (no
\* CorrectionComplete) to the result channel and injects no text.
C12_LateResultsDiscarded ==
    /\ cancel.at = "stt" =>
          cancel.effects \cap {"TranscriptionComplete", "CorrectionComplete", "inject"} = {}
    /\ cancel.at = "llm" =>
          cancel.effects \cap {"CorrectionComplete", "inject"} = {}

\* C13: in a cycle (a press followed by its release) the audio handed to
\* STT holds only samples pushed after the press was handled: it is no
\* longer than what was pushed since then, whatever the buffer held at the
\* press; and each drain leaves the buffer empty, so no sample is returned
\* by two drains.
C13_NoCrossCycleAudio ==
    /\ (cyc.ev = "PushToTalkReleased" /\ cyc.pre_recording) =>
            /\ cyc.drained <= cyc.fresh
            /\ (pc = "stt" => Len(loc.audio) <= cyc.fresh)
    /\ cyc.ev = "PushToTalkReleased" => cyc.left = 0

\* witness of C13: the press found leftover samples in the buffer, samples
\* were pushed after it, and the release handed audio to STT
C13_Witness ==
    /\ cyc.ev = "PushToTalkReleased"
    /\ cyc.pre_recording
    /\ cyc.pre_audio
    /\ cyc.fresh > 0
    /\ pc = "stt"
    /\ Len(loc.audio) = cyc.fresh

\* the calls of the cycle that were made and have not returned
C14_InFlight ==
    {x \in {"stt", "llm", "inject"} :
        \/ x = "stt" /\ cyc.stt_calls = 1 /\ cyc.stt = "none"
        \/ x = "llm" /\ cyc.llm_calls = 1 /\ cyc.llm = "none"
        \/ x = "inject" /\ cyc.inject_calls = 1 /\ cyc.inject = "none"}

\* C14: one cycle at a time and its steps in order: at most one of the STT,
\* corrector and injection calls is in flight, and exactly while the release
\* handler is suspended on it (no event is handled meanwhile); STT is called
\* only on drained audio, the corrector only after STT returned Ok and only
\* when the mode is not Fast, the injector only after STT returned Ok and,
\* when the mode is not Fast, after the corrector returned.
C14_OneCycleInOrder ==
    /\ pc \in {"recv", "stt", "llm", "inject"}
    /\ C14_InFlight = (IF pc = "recv" THEN {} ELSE {pc})
    /\ (pc # "recv") = (~cyc.done)
    /\ ~cyc.done => cyc.ev = "PushToTalkReleased"
    /\ cyc.stt_calls <= 1 /\ cyc.llm_calls <= 1 /\ cyc.inject_calls <= 1
    /\ cyc.stt_calls = 1 => cyc.drained > 0
    /\ cyc.stt # "none" => cyc.stt_calls = 1
    /\ cyc.llm_calls = 1 => (cyc.stt = "ok" /\ st.operating_mode # "Fast")
    /\ cyc.llm # "none" => cyc.llm_calls = 1
    /\ cyc.inject_calls = 1 =>
            /\ cyc.stt = "ok"
            /\ st.operating_mode # "Fast" => cyc.llm \in {"ok", "err"}
    /\ cyc.inject # "none" => cyc.inject_calls = 1

\* witness of C14: events wait in the channel while the handler is suspended
\* on the injection that follows a returned correction
C14_Witness ==
    /\ pc = "inject"
    /\ hotkey_rx # <<>>
    /\ cyc.stt = "ok"
    /\ cyc.llm = "ok"
    /\ C14_InFlight = {"inject"}

C16_ToggleIsNoOp ==
    [][(/\ pc = "recv"
        /\ hotkey_rx # <<>>
        /\ Head(hotkey_rx) = "ToggleVisibility"
        /\ hotkey_rx' = Tail(hotkey_rx)) =>
          (st' = st /\ audio_buf' = audio_buf /\ context' = context)]_vars

\* witness of C16: a toggle handled while Recording with samples in the
\* buffer, a text and a context window from earlier cycles
C16_Witness ==
    /\ cyc.ev = "ToggleVisibility"
    /\ st.pipeline = "Recording"
    /\ cyc.fresh > 0
    /\ audio_buf.len > 0
    /\ st.last_text # None
    /\ context.sentences # <<>>

\* C17: with samples in the buffer before the press and none pushed after
\* it, Pressed then Released ends in Result with last_text set: the raw
\* STT text in Fast mode or when the corrector failed, else the correction.
C17_PrefilledCycleReachesResult ==
    (/\ cyc.ev = "PushToTalkReleased"
     /\ cyc.pre_recording
     /\ cyc.pre_audio
     /\ cyc.fresh = 0
     /\ cyc.done) =>
        /\ st.pipeline = "Result"
        /\ st.last_text = Some(IF cyc.llm = "ok" THEN cyc.llm_out ELSE cyc.stt_out)

\* C18: FallbackCorrector::correct never returns an error: it returns
\* Ok(c) unchanged when the wrapped corrector returned Ok(c), and Ok(raw)
\* when the wrapped corrector returned any error.
C18_FallbackNeverFails ==
    fb.called =>
        /\ fb.out.tag = "ok"
        /\ fb.inner.tag = "ok" => fb.out.val = fb.inner.val
        /\ fb.inner.tag = "err" => fb.out.val = fb.raw

\* witness of C18: the wrapped corrector timed out
C18_Witness ==
    /\ fb.called
    /\ fb.inner = [tag |-> "err", val |-> "Timeout"]
    /\ fb.context # None
    /\ fb.out = [tag |-> "ok", val |-> fb.raw]

\* C19: the window is never longer than max_sentences, and after k pushes
\* with no silence gap above the threshold it holds the last
\* min(k, max_sentences) pushed sentences, oldest first.
C19_WindowKeepsLastN ==
    /\ Len(mgr.sentences) <= mgr.max_sentences
    /\ mgr.sentences = LastN(mgr_log, Min(Len(mgr_log), mgr.max_sentences))

\* witness of C19: more sentences than the window holds were pushed, the
\* oldest kept differs from the newest
C19_Witness ==
    /\ mgr_op.op = "push"
    /\ mgr.max_sentences >= 2
    /\ Len(mgr_log) > mgr.max_sentences
    /\ Len(mgr.sentences) = mgr.max_sentences
    /\ mgr.sentences[1] # mgr.sentences[Len(mgr.sentences)]

\* C20: a push after a silence gap above the threshold leaves only the
\* pushed sentence in the window (for max_sentences >= 1); a push after a
\* gap within the threshold keeps the earlier sentences up to the size
\* bound; every push restarts the silence timer.
C20_SilenceResetsWindow ==
    mgr_op.op = "push" =>
        /\ (mgr_op.gap > mgr.silence_reset /\ mgr.max_sentences >= 1) =>
                mgr.sentences = <<mgr_op.sentence>>
        /\ mgr_op.gap <= mgr.silence_reset =>
                mgr.sentences = LastN(Append(mgr_op.before, mgr_op.sentence),
                                     mgr.max_sentences)
        /\ mgr.last_activity = mgr_op.at

\* witness of C20: a push into a non-empty window after a gap above a
\* non-zero threshold
C20_Witness ==
    /\ mgr_op.op = "push"
    /\ mgr.silence_reset > 0
    /\ mgr_op.gap > mgr.silence_reset
    /\ Len(mgr_op.before) >= 2
    /\ mgr.sentences = <<mgr_op.sentence>>
    /\ now = mgr.last_activity

\* C21: a drain of an empty buffer returns the empty sequence; after every
\* drain or clear len = 0 and whatever is pushed next, a following drain
\* returns what it returns on a freshly constructed buffer of the same
\* capacity.
C21_ReusableAfterReset ==
    /\ (rb_op = "drain" /\ rb_pushed = <<>>) => rb_out = <<>>
    /\ rb_op \in {"drain", "clear"} =>
          /\ rb.len = 0
          /\ \A data \in SeqsOf(SampleValues, 0, MaxPushed) :
                drain_result(push_slice(rb, data)) =
                    drain_result(push_slice(RingBuffer_new(rb.capacity), data))

\* witness of C21: a drain of a wrapped buffer that leaves non-default
\* samples behind in the Vec
C21_Witness ==
    /\ rb_op = "drain"
    /\ Len(rb_pushed) > rb.capacity
    /\ Len(rb_out) = rb.capacity
    /\ rb.capacity >= 2
    /\ \E i \in 0..(rb.capacity - 1) : rb.buf[i] # 0

\* C22: the STT engine is only invoked on a clip that
\* AudioQuality::validate (with the default limits) accepts.
C22_SttOnlyOnValidatedAudio ==
    pc = "stt" => AudioQuality_validate(AudioQuality_default, loc.audio) = "Ok"

\* C23: validate returns the failure of the first failing check in the
\* order too short, too long, too quiet, clipping, and Ok only when no
\* check fails.
C23_FirstFailureWins ==
    fn_out # None =>
        LET q == fn_in.q
            audio == fn_in.audio
            short == Len(audio) < q.min_recording
            long == Len(audio) > q.max_recording
            quiet == \A i \in 1..Len(audio) : abs(audio[i]) < q.silence_threshold
            clipping == Cardinality({i \in 1..Len(audio) :
                                        abs(audio[i]) > q.clipping_threshold}) * 100
                            > q.clipping_max_pct * Len(audio)
        IN /\ short => fn_out = Some("TooShort")
           /\ (~short /\ long) => fn_out = Some("TooLong")
           /\ (~short /\ ~long /\ quiet) => fn_out = Some("TooQuiet")
           /\ (~short /\ ~long /\ ~quiet /\ clipping) => fn_out = Some("Clipping")
           /\ fn_out = Some("Ok") <=> (~short /\ ~long /\ ~quiet /\ ~clipping)

\* witness of C23: a clip that is too short, too quiet and clipping at once
C23_Witness ==
    /\ fn_out = Some("TooShort")
    /\ fn_in.audio # <<>>
    /\ \A i \in 1..Len(fn_in.audio) : abs(fn_in.audio[i]) < fn_in.q.silence_threshold
    /\ \A i \in 1..Len(fn_in.audio) : abs(fn_in.audio[i]) > fn_in.q.clipping_threshold

\* the samples of positions lo..hi of audio all below or at the threshold
\* (silent) or all above it (voice)
SegmentIs(kind, v, audio, lo, hi) ==
    \A i \in lo..hi :
        IF kind = "voice" THEN abs(audio[i]) > v.rms_threshold
        ELSE abs(audio[i]) <= v.rms_threshold

\* audio is a silent, a voice and a silent segment of n samples each
ThreeSegments(v, audio, n) ==
    /\ n >= 1
    /\ Len(audio) = 3 * n
    /\ SegmentIs("silent", v, audio, 1, n)
    /\ SegmentIs("voice", v, audio, n + 1, 2 * n)
    /\ SegmentIs("silent", v, audio, 2 * n + 1, 3 * n)

\* C24 as stated: for a clip of a silent, a voice and a silent segment of
\* equal length trim_silence returns exactly the voice segment, and for a
\* clip without a voice frame the empty slice.
C24_TrimReturnsVoiceSegment ==
    fn_out # None =>
        LET v == fn_in.v
            audio == fn_in.audio
            out == fn_out[1]
        IN /\ \A n \in 1..MaxVadClip :
                ThreeSegments(v, audio, n) => (out.start = n /\ out.end = 2 * n)
           /\ voice_frames(v, audio) = {} => out.start = out.end

\* C24 amended: the same for segments whose length is a multiple of the
\* frame size.
C24_TrimReturnsAlignedVoiceSegment ==
    fn_out # None =>
        LET v == fn_in.v
            audio == fn_in.audio
            out == fn_out[1]
        IN /\ \A n \in 1..MaxVadClip :
                (ThreeSegments(v, audio, n) /\ n % v.frame_size = 0) =>
                    /\ out.start = n
                    /\ out.end = 2 * n
                    /\ SliceOf(audio, out.start, out.end) = SubSeq(audio, n + 1, 2 * n)
           /\ (\A i \in 1..Len(audio) : abs(audio[i]) <= v.rms_threshold) =>
                    SliceOf(audio, out.start, out.end) = <<>>

\* witness of C24: two frames of voice between two frames of room noise
C24_Witness ==
    /\ fn_out # None
    /\ fn_in.v.frame_size = 1
    /\ ThreeSegments(fn_in.v, fn_in.audio, 2)
    /\ fn_in.audio[1] # 0
    /\ fn_out[1] = [start |-> 2, end |-> 4]

\* C25: for every text, no two domains that reach their thresholds share
\* the highest match count, and detect returns the same domain whatever
\* the order of the domain definitions.
C25_NoTieBetweenDomains ==
    fn_out # None =>
        LET m == fn_in.matches
            q == qualifying(DOMAINS, m)
            top(i) == \A j \in 1..Len(q) : q[j].count <= q[i].count
        IN /\ \A i, j \in 1..Len(q) : (top(i) /\ top(j)) => i = j
           /\ fn_out[1] = detect(Reverse(DOMAINS), m)

\* C26: when the awaited calls return, a release whose handling has begun
\* is eventually finished with pipeline = Result or Error and the
\* orchestrator back at hotkey_rx.recv().
C26_ReleaseEventuallySettles ==
    (cyc.ev = "PushToTalkReleased" /\ ~cyc.done) ~>
        (pc = "recv" /\ cyc.done /\ st.pipeline \in {"Result", "Error"})

\* witness of C26: a release settled after the corrector failed and the
\* injection task panicked
C26_Witness ==
    /\ pc = "recv"
    /\ cyc.ev = "PushToTalkReleased"
    /\ cyc.done
    /\ cyc.llm = "err"
    /\ cyc.inject = "join"
    /\ st.pipeline = "Result"

\* C27: whenever pipeline = Correcting, raw_text is Some and is the STT
\* output of the cycle being processed.
C27_RawTextVisibleWhileCorrecting ==
    st.pipeline = "Correcting" =>
        /\ cyc.ev = "PushToTalkReleased" /\ ~cyc.done
        /\ cyc.stt = "ok"
        /\ st.raw_text = Some(cyc.stt_out)

\* witness of C27: Correcting in a cycle after one that left another text
C27_Witness ==
    /\ st.pipeline = "Correcting"
    /\ pc = "llm"
    /\ st.last_text # None
    /\ st.last_text # st.raw_text
    /\ st.raw_text = Some(cyc.stt_out)

\* C28: raw_text is None in every state when the operating mode is Fast,
\* and in every state of a cycle whose STT call has not completed.
C28_RawTextNoneInFastMode ==
    /\ st.operating_mode = "Fast" => st.raw_text = None
    /\ (~cyc.done /\ cyc.stt = "none") => st.raw_text = None

\* C29: the context window changes only in the step that handles a
\* successful correction; no other step of a release (empty audio, STT
\* failure, corrector failure, Fast mode, injection) and no Pressed or
\* ToggleVisibility changes it.
C29_ContextChangesOnlyOnSuccess ==
    [][context' # context =>
          /\ pc = "llm"
          /\ cyc'.ev = "PushToTalkReleased"
          /\ cyc'.llm = "ok"
          /\ st.operating_mode # "Fast"
          /\ context'.sentences = trim_window(Append(context.sentences, cyc'.llm_out),
                                               context.max_sentences)
             \/ context'.sentences = <<cyc'.llm_out>>]_vars

\* witness of C29: a corrector failure in Standard mode after an earlier
\* success left a sentence in the window
C29_Witness ==
    /\ st.operating_mode = "Standard"
    /\ cyc.ev = "PushToTalkReleased"
    /\ cyc.llm = "err"
    /\ "sentences" \notin cyc.changed
    /\ Len(context.sentences) = 1
    /\ pc = "inject"

\* C30: the step of the widget that takes PushToTalkPressed from the
\* hotkey channel while its state is Result or Error sets the state to
\* Recording and sends StartRecording (when the command channel has room).
C30_PressAfterResultOrErrorStartsCycle ==
    [][(/\ ui_pc = "poll_hotkey"
        /\ ui_hotkey_rx # <<>>
        /\ Head(ui_hotkey_rx) = "PushToTalkPressed"
        /\ ui_hotkey_rx' = Tail(ui_hotkey_rx)
        /\ ui.pipeline_state \in {"Result", "Error"}) =>
          /\ ui'.pipeline_state = "Recording"
          /\ Len(ui_command_tx) < CmdCap =>
                ui_command_tx' = Append(ui_command_tx, "StartRecording")]_vars

\* C31: the audio-resample thread appends to the shared buffer only while
\* is_recording is true, so once StopRecording or Cancel has been handled
\* the sample buffer stays empty until the next StartRecording.
C31_AppendOnlyWhileRecording ==
    [][/\ ResamplePush => app_buf.is_recording
       /\ ~app_buf'.is_recording => app_buf'.samples = <<>>]_vars

\* C32: the samples accumulated for one recording never exceed
\* max_recording_secs, however long the key is held.
C32_RecordingLengthBounded ==
    /\ Len(app_buf.samples) <= MaxRecordingSamples
    /\ Len(rp.audio) <= MaxRecordingSamples

\* C33: the LLM corrector is invoked in a cycle only if LLM correction is
\* enabled: when llm.enabled is false or llm.provider is Disabled the
\* corrector is never called and the final text is the raw STT text.
C33_CorrectorOnlyWhenEnabled ==
    (~rp.config.llm_enabled \/ rp.config.llm_provider = "Disabled") =>
        /\ ~fb.called
        /\ rp.pc # "llm"
        /\ rp.pc = "inject" => rp.final_text = rp.raw_text

\* C34: inject always attempts to restore the saved clipboard content: on
\* every path after the original content was saved, restore_clipboard is
\* called before inject returns, so a failed injection does not leave the
\* injected text in the clipboard.
C34_ClipboardAlwaysRestored ==
    (inj.pc = "done" /\ inj.saved_done) =>
        /\ inj.restore_called
        /\ (inj.result # Some("ok") /\ inj.before # Some(inj.text)) =>
               clipboard # Some(inj.text)

\* C35: detect returns None exactly when no domain reaches its own
\* threshold; otherwise it returns a qualifying domain whose match count is
\* maximal among the qualifying domains and, among qualifying domains with
\* equal counts, the one earlier in the priority order Medical, Legal,
\* Technical, Casual.
C35_DetectPrefersEarlierDomain ==
    fn_out # None =>
        LET m == fn_in.matches
            count(i) == m[DOMAINS[i].name]
            Q == {i \in 1..Len(DOMAINS) : count(i) >= DOMAINS[i].threshold}
        IN IF Q = {}
           THEN fn_out[1] = None
           ELSE \E i \in Q :
                   /\ fn_out[1] = Some(DOMAINS[i].name)
                   /\ \A j \in Q : count(j) <= count(i)
                   /\ \A j \in Q : count(j) = count(i) => i <= j

\* C37: a PushToTalkPressed handled while the pipeline is already Recording
\* does not discard audio: the samples accumulated for the current
\* recording stay in the ring buffer and are what a drain returns.
C37_RepeatedPressKeepsAudio ==
    [][(/\ pc = "recv"
        /\ hotkey_rx # <<>>
        /\ Head(hotkey_rx) = "PushToTalkPressed"
        /\ hotkey_rx' = Tail(hotkey_rx)
        /\ st.pipeline = "Recording") =>
          /\ audio_buf'.len = audio_buf.len
          /\ drain_result(audio_buf') = drain_result(audio_buf)]_vars

\* C36: all audio captured while the key is held is transcribed: if fewer
\* than capacity samples are pushed between the emission of
\* PushToTalkPressed and the emission of PushToTalkReleased, all of them
\* are in the audio passed to STT for that release, also when the Pressed
\* event waited in the event channel.
C36_HeldAudioIsTranscribed ==
    (/\ pc = "stt"
     /\ cyc.ev = "PushToTalkReleased"
     /\ hotkey_rx = <<>>
     /\ key.phase = "released"
     /\ key.since < audio_buf.capacity) =>
        Len(loc.audio) >= key.since

\* C38: every sentence in the context window of run_pipeline is the output
\* of a correction that the LLM backend completed: a step that changes the
\* window appends what the backend returned, never the raw STT text of a
\* correction that failed.
C38_OnlyCompletedCorrectionsInContext ==
    [][ctx_mgr'.sentences # ctx_mgr.sentences =>
          /\ fb'.called
          /\ fb'.inner.tag = "ok"
          /\ ctx_mgr'.sentences # <<>>
          /\ ctx_mgr'.sentences[Len(ctx_mgr'.sentences)] = fb'.inner.val]_vars

\* C39: AppState.error_message is set exactly while the pipeline is in
\* Error: pipeline = Error implies error_message is Some, and
\* pipeline # Error implies error_message is None.
C39_ErrorMessageExactlyInError ==
    /\ st.pipeline = "Error" => st.error_message # None
    /\ st.pipeline # "Error" => st.error_message = None

\* C40: in every reachable RingBuffer state write_pos < capacity; while
\* len < capacity, write_pos = len and the valid samples occupy the indices
\* 0..len-1 in push order; when len = capacity the oldest sample kept is at
\* index write_pos.
C40_WritePosInvariant ==
    /\ rb.write_pos \in 0..(rb.capacity - 1)
    /\ rb.len < rb.capacity =>
          /\ rb.write_pos = rb.len
          /\ rb.len > 0 => \A i \in 0..(rb.len - 1) : rb.buf[i] = rb_pushed[i + 1]
    /\ rb.len = rb.capacity =>
          rb.buf[rb.write_pos] = LastN(rb_pushed, rb.capacity)[1]

\* witness of C40: a full buffer that has wrapped, its oldest sample not at
\* index 0 and different from the sample at index 0
C40_Witness ==
    /\ rb.len = rb.capacity
    /\ Len(rb_pushed) > rb.capacity
    /\ rb.write_pos > 0
    /\ rb.buf[rb.write_pos] # rb.buf[0]
    /\ rb.buf[rb.write_pos] = LastN(rb_pushed, rb.capacity)[1]

====
